---------------------------- MODULE Spec2Model ----------------------------
(***************************************************************************)
(* ChessWiz: the practice-session state machine of the opening trainer.    *)
(*                                                                         *)
(* The repository holds two variants of the ChessWiz component.            *)
(*   - src/unnamed/part_002: the variant with lastFenIndex and the refs    *)
(*     currentMovesRef/currentIndexRef  (specification Spec);              *)
(*   - src/unnamed/part_003: the variant whose drop listener closes over   *)
(*     the state of the render that attached it (specification SpecB).     *)
(*                                                                         *)
(* chess.js (the move oracle) and the opening data service are external.   *)
(* The oracle is modelled as a game tree: a position is the sequence of    *)
(* SAN moves played from the initial position, and the position decides    *)
(* which SANs are legal.          game = [pos, hist]: hist is the length   *)
(* of chess.js's undo history (cleared by load() and reset()).             *)
(***************************************************************************)
EXTENDS Integers, Sequences, FiniteSets, TLC

\* ------------------------------------------------------------------------
\* Bounds
\* ------------------------------------------------------------------------
\* deepest position the oracle is driven to (moves past it are not issued)
MaxPly == 3
\* fetches that may be in flight at the same time
MaxInFlight == 2

\* ------------------------------------------------------------------------
\* The move oracle (chess.js), abstracted
\* ------------------------------------------------------------------------
\* the SANs of the model: White's first moves, Black's replies, and White's
\* captures on c4 by the bishop and by the b-pawn, which differ only in case
OpeningSans == {"e4", "d4"}
BlackSans == {"e5", "d5"}
CaptureSans == {"Bxc4", "bxc4"}
AllSans == OpeningSans \cup BlackSans \cup CaptureSans

\* String.prototype.toLowerCase on the SANs of the model
toLowerCase(s) == IF s = "Bxc4" THEN "bxc4" ELSE s

\* the SANs chess.js accepts in a position
LegalSans(pos) ==
    IF Len(pos) = 0 THEN OpeningSans
    ELSE IF Len(pos) % 2 = 1 THEN BlackSans
    ELSE CaptureSans

InitialGame == [pos |-> <<>>, hist |-> 0]

\* game.move(...): null (ok = FALSE) and no change when the move is illegal
GameMove(g, san) ==
    IF san \in LegalSans(g.pos)
    THEN [ok |-> TRUE, san |-> san,
          game |-> [pos |-> Append(g.pos, san), hist |-> g.hist + 1]]
    ELSE [ok |-> FALSE, san |-> "", game |-> g]

\* game.undo(): takes back the last move of the history, if there is one
GameUndo(g) ==
    IF g.hist > 0
    THEN [pos |-> SubSeq(g.pos, 1, Len(g.pos) - 1), hist |-> g.hist - 1]
    ELSE g

\* game.reset()
GameReset(g) == InitialGame

\* The board position strings: the literal "start" and FEN strings
StartLit == <<"start">>
\* game.fen()
GameFen(g) == <<"fen">> \o g.pos
\* the position a board position string denotes
PositionOf(f) == IF f = StartLit THEN <<>> ELSE Tail(f)

\* game.load(fen): replaces the position and clears the history;
\* "start" is not a FEN, load refuses it and changes nothing
GameLoad(g, f) ==
    IF f = StartLit THEN g ELSE [pos |-> PositionOf(f), hist |-> 0]

\* applying a SAN sequence to a position, stopping at the first illegal SAN
RECURSIVE ApplyMoves(_, _)
ApplyMoves(pos, ms) ==
    IF ms = <<>> \/ Head(ms) \notin LegalSans(pos)
    THEN pos
    ELSE ApplyMoves(Append(pos, Head(ms)), Tail(ms))

\* a sequence every move of which is legal in turn from the initial position
WellFormed(ms) == Len(ApplyMoves(<<>>, ms)) = Len(ms)

\* ------------------------------------------------------------------------
\* The opening data service
\* ------------------------------------------------------------------------
NoVariation == "null"
VariationNames == {"Italian", "Scandinavian"}
OpeningIdOf(v) == IF v = "Italian" THEN "C50" ELSE "B01"
\* GET api/openings/<id>/<variation>
VariationMoves(v) ==
    IF v = "Italian" THEN <<"e4", "e5", "Bxc4">> ELSE <<"e4", "d5">>

\* how a fetch can end: 200 with an array, a non-ok status, a JSON payload
\* that is not an array, a rejected promise
FetchOutcomes == {"ok", "httpError", "notArray", "throws"}

VARIABLES
    game,                 \* the chess.js instance
    currentOpeningId, currentVariationName,
    currentMoves, currentIndex,
    feedback, wrongMove, boardPosition,
    lastFen, lastFenIndex,
    currentMovesRef, currentIndexRef,   \* part_002: refs read by the drop handler
    closureMoves, closureIndex,         \* part_003: state the attached drop listener closed over
    movesInFlight,        \* variation -> number of unresolved variation fetches
    randomInFlight,       \* number of unresolved api/practice/random fetches
    dropAction            \* what the last operation set on its drop event ("" when it was no drop)

vars == <<game, currentOpeningId, currentVariationName, currentMoves,
          currentIndex, feedback, wrongMove, boardPosition, lastFen,
          lastFenIndex, currentMovesRef, currentIndexRef, closureMoves,
          closureIndex, movesInFlight, randomInFlight, dropAction>>

InFlightTotal ==
    movesInFlight["Italian"] + movesInFlight["Scandinavian"] + randomInFlight

Init ==
    /\ game = InitialGame
    /\ currentOpeningId = NoVariation
    /\ currentVariationName = NoVariation
    /\ currentMoves = <<>>
    /\ currentIndex = 0
    /\ feedback = ""
    /\ wrongMove = FALSE
    /\ boardPosition = StartLit
    /\ lastFen = StartLit
    /\ lastFenIndex = 0
    /\ currentMovesRef = <<>>
    /\ currentIndexRef = 0
    /\ closureMoves = <<>>
    /\ closureIndex = 0
    /\ movesInFlight = [v \in VariationNames |-> 0]
    /\ randomInFlight = 0
    /\ dropAction = ""


\* the component's state as one value (the fields keep the names of the source)
Session ==
    [game |-> game,
     currentOpeningId |-> currentOpeningId,
     currentVariationName |-> currentVariationName,
     currentMoves |-> currentMoves,
     currentIndex |-> currentIndex,
     feedback |-> feedback,
     wrongMove |-> wrongMove,
     boardPosition |-> boardPosition,
     lastFen |-> lastFen,
     lastFenIndex |-> lastFenIndex,
     currentMovesRef |-> currentMovesRef,
     currentIndexRef |-> currentIndexRef,
     closureMoves |-> closureMoves,
     closureIndex |-> closureIndex]

\* the state after a handler has run and React has rendered
Commit(s, act) ==
    /\ game' = s.game
    /\ currentOpeningId' = s.currentOpeningId
    /\ currentVariationName' = s.currentVariationName
    /\ currentMoves' = s.currentMoves
    /\ currentIndex' = s.currentIndex
    /\ feedback' = s.feedback
    /\ wrongMove' = s.wrongMove
    /\ boardPosition' = s.boardPosition
    /\ lastFen' = s.lastFen
    /\ lastFenIndex' = s.lastFenIndex
    /\ currentMovesRef' = s.currentMovesRef
    /\ currentIndexRef' = s.currentIndexRef
    /\ closureMoves' = s.closureMoves
    /\ closureIndex' = s.closureIndex
    /\ dropAction' = act

\* ------------------------------------------------------------------------
\* part_002: the handlers
\* ------------------------------------------------------------------------
\* the two effects that copy currentMoves/currentIndex into the refs
KeepRefsUpToDate(s) ==
    [s EXCEPT !.currentMovesRef = s.currentMoves,
              !.currentIndexRef = s.currentIndex]

\* handlePieceDrop.  Each branch gives the state it leaves and the action it
\* sets on the event ("none": setAction is not called, the board keeps the
\* piece where it was dropped).

\* dropFreeplay with a slip: the accepted move is recorded as last good
dropFreeplayRecordsLastFen(s, attempt) ==
    IF ~attempt.ok
    THEN [s |-> [s EXCEPT !.feedback = "Illegal move (freeplay)."],
          action |-> "snapback"]
    ELSE [s |-> [s EXCEPT !.game = attempt.game,
                          !.boardPosition = GameFen(attempt.game),
                          !.lastFen = GameFen(attempt.game),
                          !.feedback = "Freeplay move recorded."],
          action |-> "none"]

\* "If no moves => freeplay"
dropFreeplay(s, attempt) ==
    IF ~attempt.ok
    THEN [s |-> [s EXCEPT !.feedback = "Illegal move (freeplay)."],
          action |-> "snapback"]
    ELSE [s |-> [s EXCEPT !.game = attempt.game,
                          !.boardPosition = GameFen(attempt.game),
                          !.feedback = "Freeplay move recorded."],
          action |-> "none"]

\* dropNoMoreMoves with a slip: the drop on a finished variation raises the flag
dropNoMoreMovesFlagsWrongMove(s) ==
    [s |-> [s EXCEPT !.feedback = "No more moves in this variation.",
                     !.wrongMove = TRUE],
     action |-> "snapback"]

\* "If all moves in the variation are already done": game.move is not called
dropNoMoreMoves(s) ==
    [s |-> [s EXCEPT !.feedback = "No more moves in this variation."],
     action |-> "snapback"]

\* dropIllegal with a slip: the illegal attempt is flagged like a wrong move
dropIllegalFlagsWrongMove(s) ==
    [s |-> [s EXCEPT !.feedback = "Illegal move!", !.wrongMove = TRUE],
     action |-> "snapback"]

\* game.move returned null
dropIllegal(s) ==
    [s |-> [s EXCEPT !.feedback = "Illegal move!"], action |-> "snapback"]

\* "Correct move"
dropCorrect(s, moveResult, idx) ==
    [s |-> [s EXCEPT !.game = moveResult.game,
                     !.feedback = "Good job! Move",
                     !.wrongMove = FALSE,
                     !.boardPosition = GameFen(moveResult.game),
                     !.lastFen = GameFen(moveResult.game),
                     !.lastFenIndex = idx + 1,
                     !.currentIndex = @ + 1],
     action |-> "none"]

\* dropWrong with a slip: the reverted position is recorded as last good
dropWrongRecordsPosition(s, moveResult, beforeFen) ==
    [s |-> [s EXCEPT !.game = GameLoad(moveResult.game, beforeFen),
                     !.boardPosition = beforeFen,
                     !.lastFen = beforeFen,
                     !.lastFenIndex = s.currentIndexRef,
                     !.feedback = "Wrong move!",
                     !.wrongMove = TRUE],
     action |-> "snapback"]

\* "Wrong move => revert"
dropWrong(s, moveResult, beforeFen) ==
    [s |-> [s EXCEPT !.game = GameLoad(moveResult.game, beforeFen),
                     !.boardPosition = beforeFen,
                     !.feedback = "Wrong move!",
                     !.wrongMove = TRUE],
     action |-> "snapback"]

\* "Compare the SAN with the correct move"
sanMatches(userSan, correctSan) ==
    toLowerCase(userSan) = toLowerCase(correctSan)

handlePieceDrop(s, d) ==
    LET ms == s.currentMovesRef
        idx == s.currentIndexRef
        moveResult == GameMove(s.game, d)
    IN  IF Len(ms) = 0 THEN dropFreeplay(s, moveResult)
        ELSE IF idx >= Len(ms) THEN dropNoMoreMoves(s)
        ELSE IF ~moveResult.ok THEN dropIllegal(s)
        ELSE IF sanMatches(moveResult.san, ms[idx + 1])
             THEN dropCorrect(s, moveResult, idx)
             ELSE dropWrong(s, moveResult, GameFen(s.game))

\* startVariationPractice up to its await
startVariationPracticeBegin(s, v) ==
    [s EXCEPT !.feedback = "Loading moves",
              !.currentOpeningId = OpeningIdOf(v),
              !.currentVariationName = v,
              !.currentMoves = <<>>,
              !.currentIndex = 0,
              !.wrongMove = FALSE,
              !.lastFen = StartLit,
              !.lastFenIndex = 0,
              !.game = GameReset(@),
              !.boardPosition = StartLit]

\* startVariationPracticeResume with a slip: a rejected fetch is swallowed
\* without a message
startVariationPracticeResumeSwallowsThrow(s, v, outcome) ==
    IF outcome = "httpError"
    THEN [s EXCEPT !.feedback = "Error loading variation moves."]
    ELSE IF outcome = "notArray"
    THEN [s EXCEPT !.feedback = "Invalid variation data."]
    ELSE IF outcome = "throws"
    THEN s
    ELSE [s EXCEPT !.currentMoves = VariationMoves(v),
                   !.feedback = "Variation loaded. Make the first move!"]

\* startVariationPractice from the moment its fetch settles
startVariationPracticeResume(s, v, outcome) ==
    IF outcome = "httpError"
    THEN [s EXCEPT !.feedback = "Error loading variation moves."]
    ELSE IF outcome = "notArray"
    THEN [s EXCEPT !.feedback = "Invalid variation data."]
    ELSE IF outcome = "throws"
    THEN [s EXCEPT !.feedback = "Error fetching variation data."]
    ELSE [s EXCEPT !.currentMoves = VariationMoves(v),
                   !.feedback = "Variation loaded. Make the first move!"]

\* handlePrevMove with a slip: at the first move the wrong-move flag is cleared
handlePrevMoveClearsFlagAtStart(s) ==
    IF Len(s.currentMoves) = 0
    THEN [s EXCEPT !.feedback = "No moves to step back."]
    ELSE IF s.currentIndex <= 0
    THEN [s EXCEPT !.feedback = "Already at the first move!",
                   !.wrongMove = FALSE]
    ELSE [s EXCEPT !.game = GameUndo(@),
                   !.boardPosition = GameFen(GameUndo(s.game)),
                   !.currentIndex = @ - 1,
                   !.feedback = "Stepped back one move."]

handlePrevMove(s) ==
    IF Len(s.currentMoves) = 0
    THEN [s EXCEPT !.feedback = "No moves to step back."]
    ELSE IF s.currentIndex <= 0
    THEN [s EXCEPT !.feedback = "Already at the first move!"]
    ELSE [s EXCEPT !.game = GameUndo(@),
                   !.boardPosition = GameFen(GameUndo(s.game)),
                   !.currentIndex = @ - 1,
                   !.feedback = "Stepped back one move."]

handleNextMove(s) ==
    IF Len(s.currentMoves) = 0
    THEN [s EXCEPT !.feedback = "No moves to step forward."]
    ELSE IF s.currentIndex >= Len(s.currentMoves)
    THEN [s EXCEPT !.feedback = "Already at the last move."]
    ELSE LET result == GameMove(s.game, s.currentMoves[s.currentIndex + 1])
         IN  IF ~result.ok
             THEN [s EXCEPT !.feedback =
                       "Invalid move sequence? Could not apply next move."]
             ELSE [s EXCEPT !.game = result.game,
                            !.boardPosition = GameFen(result.game),
                            !.currentIndex = @ + 1,
                            !.feedback = "Forward move"]

\* handleResetToLastPosition with a slip: the index is not put back
handleResetToLastPositionKeepsIndex(s) ==
    IF s.lastFenIndex = 0
    THEN [s EXCEPT !.game = GameReset(@),
                   !.boardPosition = StartLit,
                   !.currentIndex = 0,
                   !.wrongMove = FALSE,
                   !.feedback =
                       "No correct move to reset to. Board reset to start."]
    ELSE [s EXCEPT !.game = GameLoad(@, s.lastFen),
                   !.boardPosition = s.lastFen,
                   !.wrongMove = FALSE,
                   !.feedback = "Reset to last correct move."]

\* handleResetToLastPosition with a slip: with no correct move made the index
\* is not put back to 0
handleResetToLastPositionDegradedKeepsIndex(s) ==
    IF s.lastFenIndex = 0
    THEN [s EXCEPT !.game = GameReset(@),
                   !.boardPosition = StartLit,
                   !.wrongMove = FALSE,
                   !.feedback =
                       "No correct move to reset to. Board reset to start."]
    ELSE [s EXCEPT !.game = GameLoad(@, s.lastFen),
                   !.boardPosition = s.lastFen,
                   !.currentIndex = s.lastFenIndex,
                   !.wrongMove = FALSE,
                   !.feedback = "Reset to last correct move."]

handleResetToLastPosition(s) ==
    IF s.lastFenIndex = 0
    THEN [s EXCEPT !.game = GameReset(@),
                   !.boardPosition = StartLit,
                   !.currentIndex = 0,
                   !.wrongMove = FALSE,
                   !.feedback =
                       "No correct move to reset to. Board reset to start."]
    ELSE [s EXCEPT !.game = GameLoad(@, s.lastFen),
                   !.boardPosition = s.lastFen,
                   !.currentIndex = s.lastFenIndex,
                   !.wrongMove = FALSE,
                   !.feedback = "Reset to last correct move."]

\* handleResetBoard with a slip: with moves loaded lastFenIndex is not reset
handleResetBoardKeepsLastFenIndex(s) ==
    IF Len(s.currentMoves) > 0
    THEN [s EXCEPT !.game = GameReset(@),
                   !.boardPosition = StartLit,
                   !.lastFen = StartLit,
                   !.wrongMove = FALSE,
                   !.currentIndex = 0,
                   !.feedback = "Board reset for this variation. Move #1."]
    ELSE [s EXCEPT !.game = GameReset(@),
                   !.boardPosition = StartLit,
                   !.feedback = "Board reset in free-play mode."]

\* handleResetBoard with a slip: without moves the selected variation is dropped
handleResetBoardLeavesPractice(s) ==
    IF Len(s.currentMoves) > 0
    THEN [s EXCEPT !.game = GameReset(@),
                   !.boardPosition = StartLit,
                   !.lastFen = StartLit,
                   !.lastFenIndex = 0,
                   !.wrongMove = FALSE,
                   !.currentIndex = 0,
                   !.feedback = "Board reset for this variation. Move #1."]
    ELSE [s EXCEPT !.game = GameReset(@),
                   !.boardPosition = StartLit,
                   !.currentOpeningId = NoVariation,
                   !.currentVariationName = NoVariation,
                   !.feedback = "Board reset in free-play mode."]

handleResetBoard(s) ==
    IF Len(s.currentMoves) > 0
    THEN [s EXCEPT !.game = GameReset(@),
                   !.boardPosition = StartLit,
                   !.lastFen = StartLit,
                   !.lastFenIndex = 0,
                   !.wrongMove = FALSE,
                   !.currentIndex = 0,
                   !.feedback = "Board reset for this variation. Move #1."]
    ELSE [s EXCEPT !.game = GameReset(@),
                   !.boardPosition = StartLit,
                   !.feedback = "Board reset in free-play mode."]

\* enterFreeplayMode with a slip: lastFenIndex is not put back to 0
enterFreeplayModeKeepsLastFenIndex(s) ==
    [s EXCEPT !.feedback = "Switched to freeplay mode.",
              !.currentOpeningId = NoVariation,
              !.currentVariationName = NoVariation,
              !.currentMoves = <<>>,
              !.currentIndex = 0,
              !.wrongMove = FALSE,
              !.game = GameReset(@),
              !.boardPosition = StartLit,
              !.lastFen = StartLit]

enterFreeplayMode(s) ==
    [s EXCEPT !.feedback = "Switched to freeplay mode.",
              !.currentOpeningId = NoVariation,
              !.currentVariationName = NoVariation,
              !.currentMoves = <<>>,
              !.currentIndex = 0,
              !.wrongMove = FALSE,
              !.game = GameReset(@),
              !.boardPosition = StartLit,
              !.lastFen = StartLit,
              !.lastFenIndex = 0]

\* handleRandomVariation up to its await
handleRandomVariationBegin(s) ==
    [s EXCEPT !.feedback = "Loading random variation..."]

\* handleRandomVariationFail with a slip: the failure clears the session's moves
handleRandomVariationFailClearsMoves(s, outcome) ==
    IF outcome = "httpError"
    THEN [s EXCEPT !.feedback = "No openings found or error.",
                   !.currentMoves = <<>>, !.currentIndex = 0]
    ELSE [s EXCEPT !.feedback = "Error fetching random variation.",
                   !.currentMoves = <<>>, !.currentIndex = 0]

\* handleRandomVariation from the moment its fetch settles, for the outcomes
\* that do not go on to startVariationPractice
handleRandomVariationFail(s, outcome) ==
    IF outcome = "httpError"
    THEN [s EXCEPT !.feedback = "No openings found or error."]
    ELSE [s EXCEPT !.feedback = "Error fetching random variation."]

\* ShowsResetToLast with a slip: the button does not look at wrongMove
ShowsResetToLastWithoutFlag(s) ==
    Len(s.currentMoves) > 0 /\ s.lastFenIndex > 0

\* the controls the render shows
ShowsResetToLast(s) ==
    Len(s.currentMoves) > 0 /\ s.wrongMove /\ s.lastFenIndex > 0
ShowsPrevNext(s) == Len(s.currentMoves) > 0

\* no position deeper than MaxPly is produced
WithinPly(g, san) == GameMove(g, san).ok => Len(g.pos) < MaxPly

\* ------------------------------------------------------------------------
\* part_002: the operations
\* ------------------------------------------------------------------------
Drop(d) ==
    /\ WithinPly(game, d)
    /\ LET r == handlePieceDrop(Session, d)
       IN  Commit(KeepRefsUpToDate(r.s), r.action)
    /\ UNCHANGED <<movesInFlight, randomInFlight>>

StartVariationPractice(v) ==
    /\ InFlightTotal < MaxInFlight
    /\ Commit(KeepRefsUpToDate(startVariationPracticeBegin(Session, v)), "")
    /\ movesInFlight' = [movesInFlight EXCEPT ![v] = @ + 1]
    /\ UNCHANGED randomInFlight

VariationFetchSettles(v, outcome) ==
    /\ movesInFlight[v] > 0
    /\ Commit(KeepRefsUpToDate(startVariationPracticeResume(Session, v, outcome)), "")
    /\ movesInFlight' = [movesInFlight EXCEPT ![v] = @ - 1]
    /\ UNCHANGED randomInFlight

PrevMove ==
    /\ ShowsPrevNext(Session)
    /\ Commit(KeepRefsUpToDate(handlePrevMove(Session)), "")
    /\ UNCHANGED <<movesInFlight, randomInFlight>>

NextMove ==
    /\ ShowsPrevNext(Session)
    /\ currentIndex < Len(currentMoves)
           => WithinPly(game, currentMoves[currentIndex + 1])
    /\ Commit(KeepRefsUpToDate(handleNextMove(Session)), "")
    /\ UNCHANGED <<movesInFlight, randomInFlight>>

ResetToLastPosition ==
    /\ ShowsResetToLast(Session)
    /\ Commit(KeepRefsUpToDate(handleResetToLastPosition(Session)), "")
    /\ UNCHANGED <<movesInFlight, randomInFlight>>

ResetBoard ==
    /\ Commit(KeepRefsUpToDate(handleResetBoard(Session)), "")
    /\ UNCHANGED <<movesInFlight, randomInFlight>>

EnterFreeplayMode ==
    /\ Commit(KeepRefsUpToDate(enterFreeplayMode(Session)), "")
    /\ UNCHANGED <<movesInFlight, randomInFlight>>

RandomVariation ==
    /\ InFlightTotal < MaxInFlight
    /\ Commit(handleRandomVariationBegin(Session), "")
    /\ randomInFlight' = randomInFlight + 1
    /\ UNCHANGED movesInFlight

\* the random fetch answers with a pair: startVariationPractice runs on it
RandomFetchAnswers(v) ==
    /\ randomInFlight > 0
    /\ Commit(KeepRefsUpToDate(startVariationPracticeBegin(Session, v)), "")
    /\ randomInFlight' = randomInFlight - 1
    /\ movesInFlight' = [movesInFlight EXCEPT ![v] = @ + 1]

RandomFetchFails(outcome) ==
    /\ randomInFlight > 0
    /\ Commit(handleRandomVariationFail(Session, outcome), "")
    /\ randomInFlight' = randomInFlight - 1
    /\ UNCHANGED movesInFlight

Next ==
    \/ \E d \in AllSans : Drop(d)
    \/ \E v \in VariationNames : StartVariationPractice(v)
    \/ \E v \in VariationNames, o \in FetchOutcomes : VariationFetchSettles(v, o)
    \/ PrevMove
    \/ NextMove
    \/ ResetToLastPosition
    \/ ResetBoard
    \/ EnterFreeplayMode
    \/ RandomVariation
    \/ \E v \in VariationNames : RandomFetchAnswers(v)
    \/ \E o \in {"httpError", "throws"} : RandomFetchFails(o)

Spec == Init /\ [][Next]_vars


\* ------------------------------------------------------------------------
\* part_003: the handlers
\* ------------------------------------------------------------------------
\* the effect with deps [currentOpeningId, currentVariationName, currentIndex]:
\* when one of them changed in this render, the drop listener is replaced by
\* this render's handlePieceDrop, which reads this render's state
AttachDropListener(old, new) ==
    IF \/ old.currentOpeningId # new.currentOpeningId
       \/ old.currentVariationName # new.currentVariationName
       \/ old.currentIndex # new.currentIndex
    THEN [new EXCEPT !.closureMoves = new.currentMoves,
                     !.closureIndex = new.currentIndex]
    ELSE new

\* "Free-play if no moves loaded"
dropFreeplayB(s, move) ==
    IF ~move.ok
    THEN [s |-> s, action |-> "snapback"]
    ELSE [s |-> [s EXCEPT !.game = move.game,
                          !.boardPosition = GameFen(move.game)],
          action |-> "none"]

\* "Actually illegal => silent snapback"
dropIllegalB(s) == [s |-> s, action |-> "snapback"]

dropCorrectB(s, move, idx) ==
    [s |-> [s EXCEPT !.game = move.game,
                     !.feedback = "Good job! Move",
                     !.wrongMove = FALSE,
                     !.lastFen = GameFen(move.game),
                     !.boardPosition = GameFen(move.game),
                     !.currentIndex = idx + 1],
     action |-> "none"]

\* the else branch: the move made on the chess.js game is not taken back
dropWrongB(s, move) ==
    [s |-> [s EXCEPT !.game = move.game,
                     !.feedback = "Wrong move!",
                     !.wrongMove = TRUE],
     action |-> "snapback"]

\* currentMoves and currentIndex are those of the render that attached the
\* listener; correctNext is undefined past the end of the sequence
handlePieceDropB(s, d) ==
    LET ms == s.closureMoves
        idx == s.closureIndex
        move == GameMove(s.game, d)
    IN  IF Len(ms) = 0 THEN dropFreeplayB(s, move)
        ELSE IF ~move.ok THEN dropIllegalB(s)
        ELSE IF idx < Len(ms) /\ sanMatches(move.san, ms[idx + 1])
             THEN dropCorrectB(s, move, idx)
             ELSE dropWrongB(s, move)

startVariationPracticeBeginB(s, v) ==
    [s EXCEPT !.currentOpeningId = OpeningIdOf(v),
              !.currentVariationName = v,
              !.currentIndex = 0,
              !.currentMoves = <<>>,
              !.feedback = "",
              !.wrongMove = FALSE,
              !.game = GameReset(@),
              !.boardPosition = StartLit,
              !.lastFen = StartLit]

startVariationPracticeResumeB(s, v, outcome) ==
    IF outcome = "httpError"
    THEN [s EXCEPT !.feedback = "Error loading variation moves."]
    ELSE IF outcome = "notArray"
    THEN [s EXCEPT !.feedback = "Invalid variation data."]
    ELSE IF outcome = "throws"
    THEN [s EXCEPT !.feedback = "Error fetching variation data."]
    ELSE [s EXCEPT !.currentMoves = VariationMoves(v),
                   !.feedback = "Variation loaded. Make the first move!"]

handleResetToLastPositionB(s) ==
    [s EXCEPT !.game = GameLoad(@, s.lastFen),
              !.boardPosition = s.lastFen,
              !.feedback = "Reset to last correct move.",
              !.wrongMove = FALSE]

handleResetBoardB(s) ==
    IF Len(s.currentMoves) > 0
    THEN [s EXCEPT !.game = GameReset(@),
                   !.boardPosition = StartLit,
                   !.lastFen = StartLit,
                   !.wrongMove = FALSE,
                   !.currentIndex = 0,
                   !.feedback = "Board reset for this opening. Move #1."]
    ELSE [s EXCEPT !.game = GameReset(@),
                   !.boardPosition = StartLit,
                   !.feedback = "Board reset in free-play mode."]

enterFreeplayModeB(s) ==
    [s EXCEPT !.feedback = "Switched to freeplay mode.",
              !.currentOpeningId = NoVariation,
              !.currentVariationName = NoVariation,
              !.currentMoves = <<>>,
              !.currentIndex = 0,
              !.wrongMove = FALSE,
              !.lastFen = StartLit,
              !.game = GameReset(@),
              !.boardPosition = StartLit]

\* game.move's result is not looked at: the index advances either way
handleNextMoveB(s) ==
    IF Len(s.currentMoves) = 0
    THEN s
    ELSE IF s.currentIndex < Len(s.currentMoves)
    THEN LET g == GameMove(s.game, s.currentMoves[s.currentIndex + 1]).game
         IN  [s EXCEPT !.game = g,
                       !.boardPosition = GameFen(g),
                       !.currentIndex = @ + 1,
                       !.feedback = "Forward move",
                       !.wrongMove = FALSE,
                       !.lastFen = GameFen(g)]
    ELSE [s EXCEPT !.feedback = "End of variation!"]

handlePrevMoveB(s) ==
    IF Len(s.currentMoves) = 0
    THEN s
    ELSE IF s.currentIndex <= 0
    THEN [s EXCEPT !.feedback = "Already at the start!"]
    ELSE [s EXCEPT !.game = GameUndo(@),
                   !.boardPosition = GameFen(GameUndo(s.game)),
                   !.currentIndex = @ - 1,
                   !.feedback = "Stepped back one move.",
                   !.wrongMove = FALSE,
                   !.lastFen = GameFen(GameUndo(s.game))]

\* the controls the render shows
ShowsResetToLastB(s) ==
    Len(s.currentMoves) > 0 /\ s.wrongMove /\ s.currentIndex > 0

\* ------------------------------------------------------------------------
\* part_003: the operations
\* ------------------------------------------------------------------------
DropB(d) ==
    /\ WithinPly(game, d)
    /\ LET r == handlePieceDropB(Session, d)
       IN  Commit(AttachDropListener(Session, r.s), r.action)
    /\ UNCHANGED <<movesInFlight, randomInFlight>>

StartVariationPracticeB(v) ==
    /\ InFlightTotal < MaxInFlight
    /\ Commit(AttachDropListener(Session, startVariationPracticeBeginB(Session, v)), "")
    /\ movesInFlight' = [movesInFlight EXCEPT ![v] = @ + 1]
    /\ UNCHANGED randomInFlight

VariationFetchSettlesB(v, outcome) ==
    /\ movesInFlight[v] > 0
    /\ Commit(AttachDropListener(Session,
                  startVariationPracticeResumeB(Session, v, outcome)), "")
    /\ movesInFlight' = [movesInFlight EXCEPT ![v] = @ - 1]
    /\ UNCHANGED randomInFlight

PrevMoveB ==
    /\ ShowsPrevNext(Session)
    /\ Commit(AttachDropListener(Session, handlePrevMoveB(Session)), "")
    /\ UNCHANGED <<movesInFlight, randomInFlight>>

NextMoveB ==
    /\ ShowsPrevNext(Session)
    /\ currentIndex < Len(currentMoves)
           => WithinPly(game, currentMoves[currentIndex + 1])
    /\ Commit(AttachDropListener(Session, handleNextMoveB(Session)), "")
    /\ UNCHANGED <<movesInFlight, randomInFlight>>

ResetToLastPositionB ==
    /\ ShowsResetToLastB(Session)
    /\ Commit(AttachDropListener(Session, handleResetToLastPositionB(Session)), "")
    /\ UNCHANGED <<movesInFlight, randomInFlight>>

ResetBoardB ==
    /\ Commit(AttachDropListener(Session, handleResetBoardB(Session)), "")
    /\ UNCHANGED <<movesInFlight, randomInFlight>>

EnterFreeplayModeB ==
    /\ Commit(AttachDropListener(Session, enterFreeplayModeB(Session)), "")
    /\ UNCHANGED <<movesInFlight, randomInFlight>>

RandomVariationB ==
    /\ InFlightTotal < MaxInFlight
    /\ Commit(handleRandomVariationBegin(Session), "")
    /\ randomInFlight' = randomInFlight + 1
    /\ UNCHANGED movesInFlight

RandomFetchAnswersB(v) ==
    /\ randomInFlight > 0
    /\ Commit(AttachDropListener(Session, startVariationPracticeBeginB(Session, v)), "")
    /\ randomInFlight' = randomInFlight - 1
    /\ movesInFlight' = [movesInFlight EXCEPT ![v] = @ + 1]

RandomFetchFailsB(outcome) ==
    /\ randomInFlight > 0
    /\ Commit(handleRandomVariationFail(Session, outcome), "")
    /\ randomInFlight' = randomInFlight - 1
    /\ UNCHANGED movesInFlight

NextB ==
    \/ \E d \in AllSans : DropB(d)
    \/ \E v \in VariationNames : StartVariationPracticeB(v)
    \/ \E v \in VariationNames, o \in FetchOutcomes : VariationFetchSettlesB(v, o)
    \/ PrevMoveB
    \/ NextMoveB
    \/ ResetToLastPositionB
    \/ ResetBoardB
    \/ EnterFreeplayModeB
    \/ RandomVariationB
    \/ \E v \in VariationNames : RandomFetchAnswersB(v)
    \/ \E o \in {"httpError", "throws"} : RandomFetchFailsB(o)

SpecB == Init /\ [][NextB]_vars


\* ------------------------------------------------------------------------
\* Properties
\* ------------------------------------------------------------------------
\* the first n moves of a sequence (all of it when it is shorter)
Prefix(ms, n) == SubSeq(ms, 1, IF n > Len(ms) THEN Len(ms) ELSE n)

\* the position progressIndex moves of the loaded sequence lead to
ExpectedPosition == ApplyMoves(<<>>, Prefix(currentMoves, currentIndex))

\* every session field but feedback, and the live position
NothingButFeedbackChanges ==
    UNCHANGED <<game, boardPosition, currentOpeningId, currentVariationName,
                currentMoves, currentIndex, wrongMove, lastFen, lastFenIndex>>

\* C1 (stale-fetch discard): once every fetch has resolved, the moves the
\* session holds are those of the variation it names: the result of an
\* earlier startVariationPractice is never what is left in moves.
C1_StaleFetchDiscarded ==
    (InFlightTotal = 0 /\ currentVariationName \in VariationNames
                       /\ currentMoves # <<>>)
        => /\ currentOpeningId = OpeningIdOf(currentVariationName)
           /\ currentMoves = VariationMoves(currentVariationName)

\* C2 (board/progress consistency): while a sequence is loaded, the live
\* position is the one reached by the first progressIndex moves of it.
C2_BoardFollowsProgress ==
    currentMoves # <<>> => game.pos = ExpectedPosition

\* C3: 0 <= progressIndex <= len(moves) in every reachable state.
C3_ProgressIndexInRange ==
    0 <= currentIndex /\ currentIndex <= Len(currentMoves)


\* the drop of d is legal and off the script / on the script of a sequence
\* that is loaded and not finished
InProgress == currentMoves # <<>> /\ currentIndex < Len(currentMoves)
LegalDrop(d) == d \in LegalSans(game.pos)
OnScript(d) == toLowerCase(d) = toLowerCase(currentMoves[currentIndex + 1])

\* C4 (wrong-move containment), part_002: a legal drop that differs from
\* moves[progressIndex] ignoring case is snapped back, raises wrongMoveFlag,
\* keeps progressIndex and leaves the live position where it was before the
\* attempt.
C4_WrongMoveContained ==
    [][\A d \in AllSans :
          (InProgress /\ LegalDrop(d) /\ ~OnScript(d) /\ Drop(d))
              => /\ dropAction' = "snapback"
                 /\ wrongMove'
                 /\ currentIndex' = currentIndex
                 /\ game'.pos = game.pos]_vars

\* the drop listener of part_003 is the one of the current render
ListenerCurrent == closureMoves = currentMoves /\ closureIndex = currentIndex

\* C4, part_003: the same statement of that variant's drop handler, for the
\* drops an up-to-date listener handles.
C4_WrongMoveContainedB ==
    [][\A d \in AllSans :
          (InProgress /\ LegalDrop(d) /\ ~OnScript(d) /\ ListenerCurrent
                      /\ DropB(d))
              => /\ dropAction' = "snapback"
                 /\ wrongMove'
                 /\ currentIndex' = currentIndex
                 /\ game'.pos = game.pos]_vars

\* a wrong attempt has just been made (part_003)
C4_WitnessB ==
    feedback = "Wrong move!" /\ wrongMove /\ dropAction = "snapback"

\* C5 (correct-move advancement), part_002: a legal drop equal to
\* moves[progressIndex] ignoring case is accepted, advances progressIndex by
\* one, records the new live position and the new index as last good, and
\* leaves wrongMoveFlag false.
C5_CorrectMoveAdvances ==
    [][\A d \in AllSans :
          (InProgress /\ LegalDrop(d) /\ OnScript(d) /\ Drop(d))
              => /\ dropAction' = "none"
                 /\ currentIndex' = currentIndex + 1
                 /\ game'.pos = Append(game.pos, d)
                 /\ PositionOf(lastFen') = game'.pos
                 /\ lastFenIndex' = currentIndex'
                 /\ ~wrongMove']_vars

\* C5, part_003 (which keeps no lastFenIndex): a legal drop equal to
\* moves[progressIndex] ignoring case is accepted, advances progressIndex by
\* one, records the new live position as last good and leaves wrongMoveFlag
\* false.
C5_CorrectMoveAdvancesB ==
    [][\A d \in AllSans :
          (InProgress /\ LegalDrop(d) /\ OnScript(d) /\ DropB(d))
              => /\ dropAction' = "none"
                 /\ currentIndex' = currentIndex + 1
                 /\ game'.pos = Append(game.pos, d)
                 /\ PositionOf(lastFen') = game'.pos
                 /\ ~wrongMove']_vars

\* a correct move has just been made (part_003)
C5_WitnessB ==
    feedback = "Good job! Move" /\ currentIndex > 0 /\ dropAction = "none"

\* C6 (illegal-move isolation): in every mode, a drop the oracle rejects is
\* snapped back and changes no session field but feedback, nor the live
\* position.
C6_IllegalMoveIsolated ==
    [][\A d \in AllSans :
          (~LegalDrop(d) /\ Drop(d))
              => dropAction' = "snapback" /\ NothingButFeedbackChanges]_vars

\* an illegal drop has just been rejected while practising, with progress made
C6_Witness ==
    /\ feedback = "Illegal move!"
    /\ dropAction = "snapback"
    /\ currentIndex > 0
    /\ wrongMove

\* C7 (completion guard), part_002: with a sequence loaded and
\* progressIndex = len(moves), every drop is snapped back and leaves
\* progressIndex and the live position as they were.
C7_CompletionGuard ==
    [][\A d \in AllSans :
          (currentMoves # <<>> /\ currentIndex = Len(currentMoves) /\ Drop(d))
              => /\ dropAction' = "snapback"
                 /\ currentIndex' = currentIndex
                 /\ game'.pos = game.pos]_vars

\* C7, part_003: the same statement of that variant's drop handler, for the
\* drops an up-to-date listener handles.
C7_CompletionGuardB ==
    [][\A d \in AllSans :
          (currentMoves # <<>> /\ currentIndex = Len(currentMoves)
                               /\ ListenerCurrent /\ DropB(d))
              => /\ dropAction' = "snapback"
                 /\ currentIndex' = currentIndex
                 /\ game'.pos = game.pos]_vars

\* a drop was made on a finished variation (part_003)
C7_WitnessB ==
    /\ currentMoves # <<>> /\ currentIndex = Len(currentMoves)
    /\ ListenerCurrent
    /\ feedback = "Wrong move!"
    /\ dropAction = "snapback"

\* C8 (progress under stepping): with a well-formed sequence loaded and
\* progressIndex < N, stepForward increases progressIndex by exactly one.
C8_StepForwardAdvances ==
    [][(InProgress /\ WellFormed(currentMoves) /\ NextMove)
           => currentIndex' = currentIndex + 1]_vars

\* C9 (stepBackward inverts stepForward): where stepForward succeeds, a
\* stepBackward after it restores progressIndex and the live position; and
\* where progressIndex > 0, a stepForward after stepBackward restores them.
C9_StepBackInvertsStepForward ==
    [][/\ (NextMove /\ currentIndex' = currentIndex + 1)
           => LET back == handlePrevMove(Session')
              IN  /\ back.currentIndex = currentIndex
                  /\ back.game.pos = game.pos
       /\ (PrevMove /\ currentIndex > 0)
           => LET forth == handleNextMove(Session')
              IN  /\ forth.currentIndex = currentIndex
                  /\ forth.game.pos = game.pos]_vars

\* C10 (reset-to-last): with wrongMoveFlag set and lastGoodIndex > 0,
\* resetToLastGoodPosition puts the live position at lastGoodPosition and
\* progressIndex at lastGoodIndex, clears wrongMoveFlag and leaves moves,
\* openingId, variationName, lastGoodPosition and lastGoodIndex alone.
C10_ResetToLastRestores ==
    [][(wrongMove /\ lastFenIndex > 0 /\ ResetToLastPosition)
           => /\ game'.pos = PositionOf(lastFen)
              /\ currentIndex' = lastFenIndex
              /\ ~wrongMove'
              /\ UNCHANGED <<currentMoves, currentOpeningId,
                             currentVariationName, lastFen, lastFenIndex>>]_vars

\* the reset to the last good position has just been done
C10_Witness ==
    /\ feedback = "Reset to last correct move."
    /\ currentIndex = lastFenIndex
    /\ lastFenIndex > 0
    /\ game.pos = PositionOf(lastFen)
    /\ ~wrongMove

FreshFreeplay(s) ==
    /\ s.currentOpeningId = NoVariation
    /\ s.currentVariationName = NoVariation
    /\ s.currentMoves = <<>>
    /\ s.currentIndex = 0
    /\ ~s.wrongMove
    /\ PositionOf(s.lastFen) = <<>>
    /\ s.lastFenIndex = 0
    /\ s.game.pos = <<>>

\* C12 (mode switch atomicity): from every reachable state enterFreeplayMode
\* yields the same session (no opening, no variation, no moves, index 0, flag
\* down, last good position initial, last good index 0, live position
\* initial), and applying it a second time changes nothing.
C12_FreeplaySwitchAtomic ==
    [][EnterFreeplayMode
          => /\ FreshFreeplay(Session')
             /\ enterFreeplayMode(Session') = Session']_vars

\* free play has just been entered while a variation fetch was pending
C12_Witness ==
    /\ feedback = "Switched to freeplay mode."
    /\ FreshFreeplay(Session)
    /\ InFlightTotal > 0

\* C13 (FreePlay invariant): whenever openingId and variationName are unset,
\* moves is empty and progressIndex is 0.
C13_FreePlayHasNoMoves ==
    (currentOpeningId = NoVariation /\ currentVariationName = NoVariation)
        => (currentMoves = <<>> /\ currentIndex = 0)

\* C14: lastGoodIndex <= progressIndex in every reachable state.
C14_LastGoodIndexNotAhead == lastFenIndex <= currentIndex


\* the session fields other than feedback, with the live position
SessionFieldsKept ==
    /\ UNCHANGED <<currentOpeningId, currentVariationName, currentMoves,
                   currentIndex, wrongMove, lastFen, lastFenIndex>>
    /\ game'.pos = game.pos

\* C15 (suspension keeps the session): with a variation loaded, the step
\* that calls startVariationPractice or loadRandomVariation and suspends on
\* its fetch leaves openingId, variationName, moves, progressIndex,
\* wrongMoveFlag, lastGoodPosition, lastGoodIndex and the live position as
\* they were.
C15_SuspendedFetchKeepsSession ==
    [][/\ \A v \in VariationNames :
              (currentMoves # <<>> /\ StartVariationPractice(v))
                  => SessionFieldsKept
       /\ (currentMoves # <<>> /\ RandomVariation) => SessionFieldsKept]_vars

\* the error messages of startVariationPractice
VariationErrorFeedbacks ==
    {"Error loading variation moves.", "Invalid variation data.",
     "Error fetching variation data."}

\* C16 (failed variation fetch): when the fetch of startVariationPractice
\* for v ends in an HTTP error, a payload that is no sequence or a rejected
\* promise, the session then names v and its opening, has no moves, has
\* progressIndex 0 and shows an error message.
C16_FailedFetchLeavesNoMoves ==
    [][\A v \in VariationNames, o \in FetchOutcomes \ {"ok"} :
          VariationFetchSettles(v, o)
              => /\ currentOpeningId' = OpeningIdOf(v)
                 /\ currentVariationName' = v
                 /\ currentMoves' = <<>>
                 /\ currentIndex' = 0
                 /\ feedback' \in VariationErrorFeedbacks]_vars

\* Practicing with zero moves: a variation is selected and nothing is loaded
PractisingWithoutMoves ==
    currentVariationName \in VariationNames /\ currentMoves = <<>>

\* C17 (no free play while practising): in Practicing mode with zero moves
\* every drop is snapped back and leaves the live position as it was.
C17_NoFreeplayWhilePractising ==
    [][\A d \in AllSans :
          (PractisingWithoutMoves /\ Drop(d))
              => dropAction' = "snapback" /\ game'.pos = game.pos]_vars

\* the error messages of handleRandomVariation
RandomErrorFeedbacks ==
    {"No openings found or error.", "Error fetching random variation."}

\* C18 (failed random fetch): when the fetch of loadRandomVariation ends in
\* an HTTP error or a transport error, no session field but feedback
\* changes, nor does the live position.
C18_RandomFailureKeepsSession ==
    [][\A o \in {"httpError", "throws"} :
          RandomFetchFails(o)
              => /\ NothingButFeedbackChanges
                 /\ feedback' \in RandomErrorFeedbacks]_vars

\* a random fetch has just failed during a practice session with progress
C18_Witness ==
    /\ feedback \in RandomErrorFeedbacks
    /\ currentVariationName \in VariationNames
    /\ currentMoves # <<>>
    /\ currentIndex > 0

\* C19 (moves arrive on a fresh board): at the step in which a
\* startVariationPractice fetch resolves with a sequence and stores it,
\* progressIndex is 0, lastGoodIndex is 0, wrongMoveFlag is false and the
\* live position is the initial one.
C19_MovesArriveOnFreshBoard ==
    [][\A v \in VariationNames :
          VariationFetchSettles(v, "ok")
              => /\ currentIndex' = 0
                 /\ lastFenIndex' = 0
                 /\ ~wrongMove'
                 /\ game'.pos = <<>>]_vars

\* C20 (steps record the last good position), part_002: after a stepForward
\* or stepBackward that moved progressIndex, wrongMoveFlag is false,
\* lastGoodIndex is the new progressIndex and lastGoodPosition is the new
\* live position.
C20_StepsRecordLastGood ==
    [][(\/ NextMove /\ currentIndex' = currentIndex + 1
        \/ PrevMove /\ currentIndex' = currentIndex - 1)
           => /\ ~wrongMove'
              /\ lastFenIndex' = currentIndex'
              /\ PositionOf(lastFen') = game'.pos]_vars

\* C20, part_003 (which keeps no lastFenIndex): after a stepForward or
\* stepBackward that moved progressIndex, wrongMoveFlag is false and
\* lastGoodPosition is the new live position.
C20_StepsRecordLastGoodB ==
    [][(\/ NextMoveB /\ currentIndex' = currentIndex + 1
        \/ PrevMoveB /\ currentIndex' = currentIndex - 1)
           => /\ ~wrongMove'
              /\ PositionOf(lastFen') = game'.pos]_vars


\* the oracle rejects moves[progressIndex] in the live position
NextInapplicable ==
    InProgress /\ currentMoves[currentIndex + 1] \notin LegalSans(game.pos)

\* C21 (failed stepForward), part_002: when the oracle rejects
\* moves[progressIndex], stepForward leaves progressIndex, lastGoodPosition,
\* lastGoodIndex, wrongMoveFlag and the live position as they were and sets
\* an error feedback.
C21_FailedStepForwardKeepsProgress ==
    [][(NextInapplicable /\ NextMove)
           => /\ UNCHANGED <<currentIndex, lastFen, lastFenIndex, wrongMove>>
              /\ game'.pos = game.pos
              /\ feedback' =
                     "Invalid move sequence? Could not apply next move."]_vars

\* C21, part_003 (which keeps no lastFenIndex): when the oracle rejects
\* moves[progressIndex], stepForward leaves progressIndex, lastGoodPosition,
\* wrongMoveFlag and the live position as they were.
C21_FailedStepForwardKeepsProgressB ==
    [][(NextInapplicable /\ NextMoveB)
           => /\ UNCHANGED <<currentIndex, lastFen, wrongMove>>
              /\ game'.pos = game.pos]_vars

\* C22 (boundary no-ops of stepping): stepBackward at progressIndex 0 and
\* stepForward at progressIndex = len(moves) change no session field but
\* feedback and leave the live position alone; and so do handlePrevMove and
\* handleNextMove when moves is empty.
C22_BoundaryStepsAreNoOps ==
    [][/\ (currentIndex = 0 /\ PrevMove) => NothingButFeedbackChanges
       /\ (currentIndex = Len(currentMoves) /\ NextMove)
              => NothingButFeedbackChanges
       /\ currentMoves = <<>>
              => /\ handlePrevMove(Session) =
                        [Session EXCEPT !.feedback = "No moves to step back."]
                 /\ handleNextMove(Session) =
                        [Session EXCEPT !.feedback =
                                            "No moves to step forward."]]_vars

\* Prev has just been pressed at the first move, with the wrong-move flag up
C22_Witness ==
    /\ feedback = "Already at the first move!"
    /\ currentMoves # <<>>
    /\ currentIndex = 0
    /\ wrongMove

\* C23 (resetBoard while practising): with moves loaded, resetBoard sets
\* progressIndex to 0, lastGoodPosition to the initial position,
\* lastGoodIndex to 0, wrongMoveFlag to false and the live position to the
\* initial one, and leaves moves, openingId and variationName alone.
C23_ResetBoardRestartsVariation ==
    [][(currentMoves # <<>> /\ ResetBoard)
           => /\ currentIndex' = 0
              /\ PositionOf(lastFen') = <<>>
              /\ lastFenIndex' = 0
              /\ ~wrongMove'
              /\ game'.pos = <<>>
              /\ UNCHANGED <<currentMoves, currentOpeningId,
                             currentVariationName>>]_vars

\* the board has just been reset on a loaded variation
C23_Witness ==
    /\ feedback = "Board reset for this variation. Move #1."
    /\ currentMoves # <<>>
    /\ currentIndex = 0
    /\ game.pos = <<>>

\* C24 (resetBoard without moves): with no moves, resetBoard puts the live
\* position at the initial one and leaves openingId, variationName, moves,
\* progressIndex, wrongMoveFlag, lastGoodPosition and lastGoodIndex alone.
C24_ResetBoardInFreeplay ==
    [][(currentMoves = <<>> /\ ResetBoard)
           => /\ game'.pos = <<>>
              /\ feedback' = "Board reset in free-play mode."
              /\ UNCHANGED <<currentOpeningId, currentVariationName,
                             currentMoves, currentIndex, wrongMove, lastFen,
                             lastFenIndex>>]_vars

\* the board has just been reset with a variation selected and no moves
C24_Witness ==
    /\ feedback = "Board reset in free-play mode."
    /\ currentVariationName \in VariationNames
    /\ currentMoves = <<>>
    /\ game.pos = <<>>

\* two sessions that differ in feedback at most
SameButFeedback(a, b) == [a EXCEPT !.feedback = ""] = [b EXCEPT !.feedback = ""]

C26_WrongDropKeepsLastGood ==
    [][\A d \in AllSans :
          (InProgress /\ LegalDrop(d) /\ ~OnScript(d) /\ Drop(d))
              => UNCHANGED <<lastFen, lastFenIndex>>]_vars

\* a wrong attempt has just been snapped back after a correct move
C26_Witness ==
    /\ feedback = "Wrong move!"
    /\ dropAction = "snapback"
    /\ lastFenIndex > 0
    /\ PositionOf(lastFen) # <<>>

\* C27 (the flag means the board is off), as the spec states it:
\* wrongMoveFlag is true only if the live position differs from
\* lastGoodPosition.
C27_FlagMeansBoardDiffers ==
    wrongMove => game.pos # PositionOf(lastFen)

\* C27, amended: wrongMoveFlag is raised only by a legal off-script drop on
\* an unfinished variation, and that drop leaves the live position where it
\* was before the attempt.
C27_FlagRaisedOnlyByWrongDrop ==
    [][(~wrongMove /\ wrongMove')
           => /\ \E d \in AllSans :
                     InProgress /\ LegalDrop(d) /\ ~OnScript(d) /\ Drop(d)
              /\ game'.pos = game.pos]_vars

\* the flag is up right after a wrong attempt and the live position is the
\* last good one
C27_Witness ==
    /\ wrongMove
    /\ feedback = "Wrong move!"
    /\ lastFenIndex > 0
    /\ game.pos = PositionOf(lastFen)

\* the illegal-move messages of handlePieceDrop
IllegalMoveFeedbacks == {"Illegal move!", "Illegal move (freeplay)."}

\* C28 (legality first): every drop the oracle rejects is reported with an
\* illegal-move feedback, also on a finished variation.
C28_IllegalDropReportedIllegal ==
    [][\A d \in AllSans :
          (~LegalDrop(d) /\ Drop(d))
              => feedback' \in IllegalMoveFeedbacks]_vars

\* C29 (free play accepts): with no moves and no variation selected, a
\* legal drop is accepted and played on the live position, progressIndex
\* stays 0 and wrongMoveFlag, lastGoodPosition and lastGoodIndex are
\* unchanged.
C29_FreeplayAcceptsLegalDrops ==
    [][\A d \in AllSans :
          (currentMoves = <<>> /\ currentVariationName = NoVariation
                               /\ LegalDrop(d) /\ Drop(d))
              => /\ dropAction' = "none"
                 /\ game'.pos = Append(game.pos, d)
                 /\ currentIndex' = 0
                 /\ UNCHANGED <<wrongMove, lastFen, lastFenIndex>>]_vars

\* two free-play moves have been played
C29_Witness ==
    /\ feedback = "Freeplay move recorded."
    /\ currentVariationName = NoVariation
    /\ currentMoves = <<>>
    /\ Len(game.pos) >= 2
    /\ dropAction = "none"

\* C30 (moves are loaded once): drops, stepForward, stepBackward, resetBoard
\* and resetToLastGoodPosition leave moves, openingId and variationName
\* unchanged, and a fetched sequence is stored only into moves left empty by
\* the last startVariationPractice or enterFreeplayMode, that is, at most
\* once between two such calls.
C30_MovesLoadedOnce ==
    [][/\ ((\E d \in AllSans : Drop(d)) \/ NextMove \/ PrevMove
               \/ ResetBoard \/ ResetToLastPosition)
              => UNCHANGED <<currentMoves, currentOpeningId,
                             currentVariationName>>
       /\ \A v \in VariationNames :
              VariationFetchSettles(v, "ok") => currentMoves = <<>>]_vars


\* C31 (last good position and index agree): lastGoodPosition is the
\* position the first lastGoodIndex moves of the loaded sequence lead to,
\* and lastGoodIndex <= len(moves).
C31_LastGoodPairConsistent ==
    /\ lastFenIndex <= Len(currentMoves)
    /\ PositionOf(lastFen) = ApplyMoves(<<>>, Prefix(currentMoves, lastFenIndex))

\* C32 (flag and indices need moves): wrongMoveFlag implies that moves is
\* non-empty and a variation is selected; progressIndex > 0 or
\* lastGoodIndex > 0 implies that moves is non-empty.
C32_FlagAndIndicesNeedMoves ==
    /\ wrongMove => (currentMoves # <<>> /\ currentVariationName \in VariationNames
                                         /\ currentOpeningId # NoVariation)
    /\ (currentIndex > 0 \/ lastFenIndex > 0) => currentMoves # <<>>

\* C33 (an older random request does not win): when the answer of
\* api/practice/random arrives while the session still shows the switch to
\* free play, which was therefore made after the request, the session stays
\* in free play.
C33_OlderRandomRequestDiscarded ==
    [][\A v \in VariationNames :
          (feedback = "Switched to freeplay mode." /\ RandomFetchAnswers(v))
              => /\ currentOpeningId' = NoVariation
                 /\ currentVariationName' = NoVariation]_vars


\* a pending fetch of api/openings/<id>/<variation> resolves, one way or
\* another (the one part of "every issued fetch resolves" that the end of
\* loading depends on)
VariationFetchesResolve ==
    WF_vars(\E v \in VariationNames, o \in FetchOutcomes :
                VariationFetchSettles(v, o))

FairSpec == Spec /\ VariationFetchesResolve

\* the loading state of startVariationPractice has been left: the fetched
\* sequence is in moves with the ready message, or an error message is
\* shown, or free play was entered
LoadingLeft ==
    \/ feedback = "Variation loaded. Make the first move!" /\ currentMoves # <<>>
    \/ feedback \in VariationErrorFeedbacks
    \/ feedback = "Switched to freeplay mode."

\* C34 (loading ends): if pending variation fetches resolve, a session showing
\* the loading feedback of startVariationPractice eventually shows the
\* ready message with the fetched moves, or an error message, or the switch
\* to free play; it does not stay loading forever.
C34_LoadingEnds == (feedback = "Loading moves") ~> LoadingLeft

\* a variation has been loaded and no fetch is pending
C34_Witness ==
    /\ feedback = "Variation loaded. Make the first move!"
    /\ currentMoves # <<>>
    /\ InFlightTotal = 0


==========================================================================
